---------------------------- MODULE Spec2Model ----------------------------
(***************************************************************************)
(* Model of src/script_api.py: the celebration pack ownership checker.     *)
(*                                                                         *)
(* A Python str is modelled as a sequence of code points, each code point  *)
(* written as a TLA+ string.  Two code points have no ASCII spelling:      *)
(*   "j^"  is U+01F0 (LATIN SMALL LETTER J WITH CARON), a \w character     *)
(*         whose str.upper() is the two code points "J" U+030C;            *)
(*   "^"   is U+030C (COMBINING CARON), which is neither \w, \s nor "-".   *)
(***************************************************************************)
EXTENDS Integers, Sequences, FiniteSets, TLC

VARIABLES
    \* ---- normalize_name / get_search_terms applied to one name
    name, normalized, renormalized, terms_out, tpc,
    \* ---- group_items_by_base_name
    items, gi, grouped, gpc,
    \* ---- find_missing_items / check_ownership / search_item
    celebration_items, owned_items, missing_items, ci, ii, item, checked, pc,
    search_terms, ti, queried, resp, results, ret, is_owned, exc, intAt,
    handled

textVars == <<name, normalized, renormalized, terms_out, tpc>>
groupVars == <<items, gi, grouped, gpc>>
runVars == <<celebration_items, owned_items, missing_items, ci, ii, item,
             checked, pc, search_terms, ti, queried, resp, results, ret,
             is_owned, exc, intAt, handled>>
vars == <<textVars, groupVars, runVars>>

(***************************************************************************)
(* Bounds                                                                  *)
(***************************************************************************)
MaxLen == 4
MaxGroupItems == 3
MaxItems == 2
MaxResults == 2

(***************************************************************************)
(* Strings                                                                 *)
(***************************************************************************)
StringsUpTo(alphabet, n) == UNION {[1..k -> alphabet] : k \in 0..n}

SeqsUpTo(S, n) == UNION {[1..k -> S] : k \in 0..n}

\* \w of the re module on str: letters, digits, underscore.
IsWordChar(c) == c \in {"A", "B", "C", "H", "J", "L", "R", "S", "U", "W", "X",
                        "a", "b", "j^", "_"}

\* \s of the re module, and the characters str.strip() / str.split() treat as
\* whitespace.
IsSpaceChar(c) == c = " "

\* a character the class [^\w\s-] does NOT match
Kept(c) == IsWordChar(c) \/ IsSpaceChar(c) \/ c = "-"

\* re.sub(r'[^\w\s-]', '', s)
StripSpecial(s) == SelectSeq(s, Kept)

\* re.search(r'[^\w\s-]', s)
HasSpecial(s) == \E i \in 1..Len(s) : ~Kept(s[i])

\* str.upper() of one code point (Unicode SpecialCasing: U+01F0 -> J U+030C)
UpperChar(c) ==
    CASE c = "a" -> <<"A">>
      [] c = "b" -> <<"B">>
      [] c = "j^" -> <<"J", "^">>
      [] OTHER -> <<c>>

RECURSIVE Upper(_)
Upper(s) == IF s = <<>> THEN <<>> ELSE UpperChar(Head(s)) \o Upper(Tail(s))

RECURSIVE LStrip(_)
LStrip(s) == IF s # <<>> /\ IsSpaceChar(Head(s)) THEN LStrip(Tail(s)) ELSE s

RECURSIVE RStrip(_)
RStrip(s) ==
    IF s # <<>> /\ IsSpaceChar(s[Len(s)]) THEN RStrip(SubSeq(s, 1, Len(s) - 1))
    ELSE s

\* str.strip()
Strip(s) == RStrip(LStrip(s))

\* str.split(): the maximal runs of non-whitespace, left to right
RECURSIVE SplitFrom(_, _, _)
SplitFrom(s, i, cur) ==
    IF i > Len(s) THEN (IF cur = <<>> THEN <<>> ELSE <<cur>>)
    ELSE IF IsSpaceChar(s[i])
         THEN (IF cur = <<>> THEN <<>> ELSE <<cur>>) \o SplitFrom(s, i + 1, <<>>)
         ELSE SplitFrom(s, i + 1, Append(cur, s[i]))

Split(s) == SplitFrom(s, 1, <<>>)

\* ' '.join(words)
RECURSIVE Join(_)
Join(words) ==
    IF words = <<>> THEN <<>>
    ELSE IF Len(words) = 1 THEN words[1]
    ELSE words[1] \o <<" ">> \o Join(Tail(words))

\* sub in s
Contains(sub, s) ==
    \E i \in 1..(Len(s) - Len(sub) + 1) : SubSeq(s, i, i + Len(sub) - 1) = sub

\* set(words)
SetOf(words) == {words[i] : i \in 1..Len(words)}

(***************************************************************************)
(* CelebrationPackChecker.normalize_name                                   *)
(***************************************************************************)
normalize_name(s) == Strip(Upper(StripSpecial(s)))

(***************************************************************************)
(* CelebrationPackChecker.get_search_terms                                 *)
(***************************************************************************)
\* a plausible slip: "if len(words) >= 1" guarding the two-word term
get_search_terms_mut(item_name) ==
    LET no_special == StripSpecial(item_name)
        t1 == <<item_name>>
        t2 == IF no_special # item_name THEN Append(t1, no_special) ELSE t1
        words == Split(no_special)
        n == Len(words)
    IN  IF HasSpecial(item_name) /\ n > 0
        THEN Append(Append(t2, words[n]), Join(SubSeq(words, IF n >= 2 THEN n - 1 ELSE n, n)))
        ELSE t2

get_search_terms(item_name) ==
    LET no_special == StripSpecial(item_name)
        t1 == <<item_name>>
        t2 == IF no_special # item_name THEN Append(t1, no_special) ELSE t1
        words == Split(no_special)
        n == Len(words)
        t3 == IF n > 0 THEN Append(t2, words[n]) ELSE t2
        t4 == IF n >= 2 THEN Append(t3, Join(SubSeq(words, n - 1, n))) ELSE t3
    IN  IF HasSpecial(item_name) THEN (IF n > 0 THEN t4 ELSE t2) ELSE t2

(***************************************************************************)
(* Specification SpecText: normalize_name twice and get_search_terms, on   *)
(* every name of at most MaxLen code points.                               *)
(***************************************************************************)
TextAlphabet == {"A", "a", " ", "-", "'", "j^", "_"}

RunIdle ==
    /\ celebration_items = <<>>
    /\ owned_items = <<>>
    /\ missing_items = <<>>
    /\ ci = 0
    /\ ii = 0
    /\ item = <<>>
    /\ checked = 0
    /\ pc = "idle"
    /\ search_terms = <<>>
    /\ ti = 0
    /\ queried = <<>>
    /\ resp = [kind |-> "none"]
    /\ results = <<>>
    /\ ret = "none"
    /\ is_owned = "none"
    /\ exc = "none"
    /\ intAt = "none"
    /\ handled = FALSE

GroupIdle ==
    /\ items = <<>>
    /\ gi = 0
    /\ grouped = <<>>
    /\ gpc = "idle"

TextIdle ==
    /\ name = <<>>
    /\ normalized = <<>>
    /\ renormalized = <<>>
    /\ terms_out = <<>>
    /\ tpc = "idle"

InitText ==
    /\ name \in StringsUpTo(TextAlphabet, MaxLen)
    /\ normalized = <<>>
    /\ renormalized = <<>>
    /\ terms_out = <<>>
    /\ tpc = "start"
    /\ GroupIdle
    /\ RunIdle

Normalize ==
    /\ tpc = "start"
    /\ normalized' = normalize_name(name)
    /\ tpc' = "normalized"
    /\ UNCHANGED <<name, renormalized, terms_out, groupVars, runVars>>

Renormalize ==
    /\ tpc = "normalized"
    /\ renormalized' = normalize_name(normalized)
    /\ tpc' = "renormalized"
    /\ UNCHANGED <<name, normalized, terms_out, groupVars, runVars>>

GenerateTerms ==
    /\ tpc = "renormalized"
    /\ terms_out' = get_search_terms(name)
    /\ tpc' = "done"
    /\ UNCHANGED <<name, normalized, renormalized, groupVars, runVars>>

NextText == Normalize \/ Renormalize \/ GenerateTerms

SpecText == InitText /\ [][NextText]_vars

(***************************************************************************)
(* CelebrationPackChecker.group_items_by_base_name                         *)
(***************************************************************************)
Sep == <<" ", "-", " ">>

\* str.rfind: the highest index at which sep occurs in s, scanning from the
\* right end; 0 when there is none
RECURSIVE RFind(_, _, _)
RFind(s, sep, i) ==
    IF i < 1 THEN 0
    ELSE IF SubSeq(s, i, i + Len(sep) - 1) = sep THEN i
    ELSE RFind(s, sep, i - 1)

\* a plausible slip: split(' - ', 1) instead of rsplit(' - ', 1)
RECURSIVE LFind(_, _, _)
LFind(s, sep, i) ==
    IF i > Len(s) - Len(sep) + 1 THEN 0
    ELSE IF SubSeq(s, i, i + Len(sep) - 1) = sep THEN i
    ELSE LFind(s, sep, i + 1)

base_name_mut(nm) ==
    IF Contains(Sep, nm) THEN SubSeq(nm, 1, LFind(nm, Sep, 1) - 1)
    ELSE nm

\* nm.rsplit(' - ', 1)[0] when ' - ' in nm, else nm
base_name(nm) ==
    IF Contains(Sep, nm)
    THEN SubSeq(nm, 1, RFind(nm, Sep, Len(nm) - Len(Sep) + 1) - 1)
    ELSE nm

\* grouped[base].append(item) on a defaultdict(list); a dict keeps its keys in
\* insertion order, so it is a sequence of (key, members) entries
Keys(d) == {d[i].key : i \in 1..Len(d)}

GroupAppend(d, base, nm) ==
    IF base \in Keys(d)
    THEN [i \in 1..Len(d) |->
            IF d[i].key = base
            THEN [key |-> base, members |-> Append(d[i].members, nm)]
            ELSE d[i]]
    ELSE Append(d, [key |-> base, members |-> <<nm>>])

\* "RS - H", "RS - U", "LW" stand for "REDHAMMER STANDARD - HEADGEAR",
\* "REDHAMMER STANDARD - UNIFORM", "LONE WOLF"
GroupNames ==
    { <<"R", "S", " ", "-", " ", "H">>,
      <<"R", "S", " ", "-", " ", "U">>,
      <<"L", "W">>,
      <<"R", "S">>,
      <<"A", " ", "-", " ", "B", " ", "-", " ", "C">>,
      <<"A", " ", "-", " ", "-", " ", "B">>,
      <<"A", "-", "B">>,
      <<" ", "-", " ", "X">> }

InitGroup ==
    /\ items \in SeqsUpTo(GroupNames, MaxGroupItems)
    /\ gi = 1
    /\ grouped = <<>>
    /\ gpc = "loop"
    /\ TextIdle
    /\ RunIdle

GroupItem ==
    /\ gpc = "loop"
    /\ gi <= Len(items)
    /\ grouped' = GroupAppend(grouped, base_name(items[gi]), items[gi])
    /\ gi' = gi + 1
    /\ UNCHANGED <<items, gpc, textVars, runVars>>

GroupReturn ==
    /\ gpc = "loop"
    /\ gi > Len(items)
    /\ gpc' = "done"
    /\ UNCHANGED <<items, gi, grouped, textVars, runVars>>

NextGroup == GroupItem \/ GroupReturn

SpecGroup == InitGroup /\ [][NextGroup]_vars

(***************************************************************************)
(* R6MarketplaceAPI.search_item on the value graphql_query returned        *)
(*                                                                         *)
(* A response is [kind |-> k] with k one of                                *)
(*   "None"    graphql_query caught an exception (network, HTTP status,    *)
(*             invalid JSON) and returned None;                            *)
(*   "empty"   the JSON body is an empty list;                             *)
(*   "scalar"  the JSON body is a truthy value without len(), such as      *)
(*             true or 1;                                                  *)
(*   "errors"  the JSON body is a non-empty object, or a list whose first  *)
(*             element lacks data.game.marketableItems.nodes;              *)
(*   "nodes"   the body holds a list of nodes, in field nodes.             *)
(* A node is [name, viewer]: viewer "owned" / "notowned" is a viewer with  *)
(* meta.isOwned true / false, "absent" a missing or null viewer,           *)
(* "metanull" a viewer whose meta is null; or it is NoKeys, a node         *)
(* without its item / itemId / name / type keys.                           *)
(***************************************************************************)
NoKeys == [name |-> <<>>, viewer |-> "nokeys"]

\* lines 175-190 over nodes[i..]: the items built, or the exception raised
RECURSIVE ParseNodes(_, _, _)
ParseNodes(nodes, i, acc) ==
    IF i > Len(nodes) THEN [raised |-> "none", items |-> acc]
    ELSE IF nodes[i].viewer = "nokeys" THEN [raised |-> "KeyError", items |-> <<>>]
    ELSE IF nodes[i].viewer = "metanull"
         THEN [raised |-> "AttributeError", items |-> <<>>]
    ELSE ParseNodes(nodes, i + 1,
            Append(acc, [name |-> nodes[i].name,
                         is_owned |-> nodes[i].viewer = "owned"]))

\* the list search_item returns, or the exception that leaves it
search_item(r) ==
    IF r.kind \in {"None", "empty"} THEN [raised |-> "none", items |-> <<>>]
    ELSE IF r.kind = "scalar" THEN [raised |-> "TypeError", items |-> <<>>]
    ELSE IF r.kind = "errors" THEN [raised |-> "none", items |-> <<>>]
    ELSE LET p == ParseNodes(r.nodes, 1, <<>>)
         IN  IF p.raised \in {"KeyError", "IndexError", "TypeError"}
             THEN [raised |-> "none", items |-> <<>>]
             ELSE p

(***************************************************************************)
(* CelebrationPackChecker.check_ownership: the body of the loop over       *)
(* search_terms for one non-empty result list                              *)
(***************************************************************************)
\* the first loop (lines 330-335): index of the first exact match, or 0
RECURSIVE ExactScan(_, _, _)
ExactScan(res, target, i) ==
    IF i > Len(res) THEN 0
    ELSE IF normalize_name(res[i].name) = target THEN i
    ELSE ExactScan(res, target, i + 1)

\* the condition of lines 345-352 on one result
PartialHit(r, target) ==
    LET normalized_result == normalize_name(r.name)
    IN  /\ Contains(target, normalized_result)
        /\ r.is_owned
        /\ SetOf(Split(target)) \subseteq SetOf(Split(normalized_result))

\* the second loop (lines 339-353)
RECURSIVE PartialScan(_, _, _)
PartialScan(res, target, i) ==
    IF i > Len(res) THEN 0
    ELSE IF PartialHit(res[i], target) THEN i
    ELSE PartialScan(res, target, i + 1)

\* a plausible slip: one loop testing each result for an exact, then a partial
\* match
RECURSIVE SinglePassScan(_, _, _)
SinglePassScan(res, target, i) ==
    IF i > Len(res) THEN [decided |-> FALSE, value |-> FALSE]
    ELSE IF normalize_name(res[i].name) = target
         THEN [decided |-> TRUE, value |-> res[i].is_owned]
    ELSE IF PartialHit(res[i], target) THEN [decided |-> TRUE, value |-> TRUE]
    ELSE SinglePassScan(res, target, i + 1)

MatchResults_mut(res, item_name) ==
    SinglePassScan(res, normalize_name(item_name), 1)

\* lines 324-353: whether this term returns from check_ownership, and what
MatchResults(res, item_name) ==
    LET normalized_search == normalize_name(item_name)
        e == ExactScan(res, normalized_search, 1)
        q == PartialScan(res, normalized_search, 1)
    IN  IF res = <<>> THEN [decided |-> FALSE, value |-> FALSE]
        ELSE IF e # 0 THEN [decided |-> TRUE, value |-> res[e].is_owned]
        ELSE IF q # 0 THEN [decided |-> TRUE, value |-> TRUE]
        ELSE [decided |-> FALSE, value |-> FALSE]

(***************************************************************************)
(* The dicts owned_items / missing_items: category -> list, in insertion   *)
(* order                                                                   *)
(***************************************************************************)
\* d[k]
DictGet(d, k) == d[CHOOSE i \in 1..Len(d) : d[i].key = k].members

\* d[k] = []
DictReset(d, k) ==
    IF k \in Keys(d)
    THEN [i \in 1..Len(d) |-> IF d[i].key = k THEN [key |-> k, members |-> <<>>] ELSE d[i]]
    ELSE Append(d, [key |-> k, members |-> <<>>])

\* d[k].append(x)
DictAppend(d, k, x) ==
    [i \in 1..Len(d) |->
        IF d[i].key = k THEN [key |-> k, members |-> Append(d[i].members, x)]
        ELSE d[i]]

RECURSIVE CountAll(_)
CountAll(d) == IF d = <<>> THEN 0 ELSE Len(Head(d).members) + CountAll(Tail(d))

\* generate_report: the three totals
total_celebration == CountAll(celebration_items)
total_owned == CountAll(owned_items)
total_missing == CountAll(missing_items)

(***************************************************************************)
(* CelebrationPackChecker.find_missing_items                               *)
(***************************************************************************)
\* "A'" stands for "Ace's Hat", "A B" for "BLACK ICE", "A" for "RED";
\* "' A B" has four search terms, "'" normalizes to the empty string
ItemNames ==
    { <<"A">>, <<"A", "'">>, <<"A", " ", "B">>, <<"'", "A", " ", "B">>, <<"'">> }

\* "BA" stands for "INFRARED SCOPE", "A B - C" for "BLACK ICE - R4-C"
CandidateNames ==
    { <<"a">>, <<"B", "A">>, <<"A", " ", "B", " ", "-", " ", "C">> }

Nodes ==
    [name : CandidateNames, viewer : {"owned", "notowned", "absent", "metanull"}]
        \cup {NoKeys}

FailedResponses == {[kind |-> "None"], [kind |-> "scalar"], [kind |-> "errors"]}

ResponsesUpTo(n) ==
    FailedResponses \cup {[kind |-> "empty"]}
        \cup {[kind |-> "nodes", nodes |-> ns] : ns \in SeqsUpTo(Nodes, n) \ {<<>>}}

Categories == <<"HEADGEAR", "UNIFORMS">>

Catalogs(names, n) ==
    {c \in [1..Len(Categories) -> [key : SetOf(Categories), members : SeqsUpTo(names, n)]] :
        /\ \A i \in 1..Len(Categories) : c[i].key = Categories[i]
        /\ CountAll(c) <= n}

category == celebration_items[ci].key

InitRun(catalogs) ==
    /\ celebration_items \in catalogs
    /\ owned_items = <<>>
    /\ missing_items = <<>>
    /\ ci = 1
    /\ ii = 0
    /\ item = <<>>
    /\ checked = 0
    /\ pc = "category"
    /\ search_terms = <<>>
    /\ ti = 0
    /\ queried = <<>>
    /\ resp = [kind |-> "none"]
    /\ results = <<>>
    /\ ret = "none"
    /\ is_owned = "none"
    /\ exc = "none"
    /\ intAt = "none"
    /\ handled = FALSE
    /\ TextIdle
    /\ GroupIdle

\* the locals of check_ownership, dead once it is left
LocalsCleared ==
    /\ search_terms' = <<>>
    /\ ti' = 0
    /\ queried' = <<>>
    /\ resp' = [kind |-> "none"]
    /\ results' = <<>>
    /\ ret' = "none"

\* lines 370-372: the next category, its two lists reset
BeginCategory ==
    /\ pc = "category"
    /\ ci <= Len(celebration_items)
    /\ owned_items' = DictReset(owned_items, category)
    /\ missing_items' = DictReset(missing_items, category)
    /\ ii' = 1
    /\ pc' = "item"
    /\ UNCHANGED <<celebration_items, ci, item, checked, search_terms, ti,
                   queried, resp, results, ret, is_owned, exc, intAt, handled,
                   textVars, groupVars>>

\* the outer loop is exhausted: find_missing_items returns
Finish ==
    /\ pc = "category"
    /\ ci > Len(celebration_items)
    /\ pc' = "done"
    /\ UNCHANGED <<celebration_items, owned_items, missing_items, ci, ii, item,
                   checked, search_terms, ti, queried, resp, results, ret,
                   is_owned, exc, intAt, handled, textVars, groupVars>>

\* the inner loop is exhausted: on to the next category
EndCategory ==
    /\ pc = "item"
    /\ ii > Len(celebration_items[ci].members)
    /\ ci' = ci + 1
    /\ pc' = "category"
    /\ UNCHANGED <<celebration_items, owned_items, missing_items, ii, item,
                   checked, search_terms, ti, queried, resp, results, ret,
                   is_owned, exc, intAt, handled, textVars, groupVars>>

\* lines 374-379 and 319: the next item, the progress line, into the try block
\* and into check_ownership
BeginItem ==
    /\ pc = "item"
    /\ ii <= Len(celebration_items[ci].members)
    /\ item' = celebration_items[ci].members[ii]
    /\ checked' = checked + 1
    /\ search_terms' = get_search_terms(celebration_items[ci].members[ii])
    /\ ti' = 1
    /\ queried' = <<>>
    /\ resp' = [kind |-> "none"]
    /\ results' = <<>>
    /\ ret' = "none"
    /\ is_owned' = "none"
    /\ exc' = "none"
    /\ handled' = FALSE
    /\ pc' = "search"
    /\ UNCHANGED <<celebration_items, owned_items, missing_items, ci, ii,
                   intAt, textVars, groupVars>>

\* line 322: search_item called with the next term, the provider answering r;
\* an exception search_item lets out leaves check_ownership too
SearchTerm(r) ==
    LET out == search_item(r)
    IN  /\ resp' = r
        /\ queried' = Append(queried, search_terms[ti])
        /\ results' = out.items
        /\ exc' = out.raised
        /\ pc' = IF out.raised # "none" THEN "except" ELSE "match"

Search(responses) ==
    /\ pc = "search"
    /\ ti <= Len(search_terms)
    /\ \E r \in responses : SearchTerm(r)
    /\ UNCHANGED <<celebration_items, owned_items, missing_items, ci, ii, item,
                   checked, search_terms, ti, ret, is_owned, intAt, handled,
                   textVars, groupVars>>

\* lines 324-353: the rest of the iteration: return, or go on to the next term
Match ==
    /\ pc = "match"
    /\ LET m == MatchResults(results, item)
       IN  IF m.decided
           THEN /\ ret' = m.value
                /\ pc' = "return"
                /\ UNCHANGED <<ti, resp, results>>
           ELSE /\ ti' = ti + 1
                /\ pc' = "search"
                /\ resp' = [kind |-> "none"]
                /\ results' = <<>>
                /\ UNCHANGED ret
    /\ UNCHANGED <<celebration_items, owned_items, missing_items, ci, ii, item,
                   checked, search_terms, queried, is_owned, exc, intAt,
                   handled, textVars, groupVars>>

\* line 355: every term tried
ReturnFalse ==
    /\ pc = "search"
    /\ ti > Len(search_terms)
    /\ ret' = FALSE
    /\ pc' = "return"
    /\ UNCHANGED <<celebration_items, owned_items, missing_items, ci, ii, item,
                   checked, search_terms, ti, queried, resp, results, is_owned,
                   exc, intAt, handled, textVars, groupVars>>

\* line 379: is_owned = the value check_ownership returns
Return ==
    /\ pc = "return"
    /\ is_owned' = ret
    /\ LocalsCleared
    /\ pc' = "classify"
    /\ UNCHANGED <<celebration_items, owned_items, missing_items, ci, ii, item,
                   checked, exc, intAt, handled, textVars, groupVars>>

\* lines 381-386: the append, then the print of the check mark or the cross,
\* which raises UnicodeEncodeError when stdout cannot encode it
Classify ==
    /\ pc = "classify"
    /\ IF is_owned = TRUE
       THEN /\ owned_items' = DictAppend(owned_items, category, item)
            /\ UNCHANGED missing_items
       ELSE /\ missing_items' = DictAppend(missing_items, category, item)
            /\ UNCHANGED owned_items
    /\ \/ /\ pc' = "sleep"
          /\ UNCHANGED exc
       \/ /\ pc' = "except"
          /\ exc' = "UnicodeEncodeError"
    /\ UNCHANGED <<celebration_items, ci, ii, item, checked, search_terms, ti,
                   queried, resp, results, ret, is_owned, intAt, handled,
                   textVars, groupVars>>

\* line 389, then back to the head of the inner loop
Sleep ==
    /\ pc = "sleep"
    /\ ii' = ii + 1
    /\ pc' = "item"
    /\ UNCHANGED <<celebration_items, owned_items, missing_items, ci, item,
                   checked, search_terms, ti, queried, resp, results, ret,
                   is_owned, exc, intAt, handled, textVars, groupVars>>

\* a plausible slip: the handler only reports the error
HandleException_mut ==
    /\ pc = "except"
    /\ handled' = TRUE
    /\ LocalsCleared
    /\ ii' = ii + 1
    /\ pc' = "item"
    /\ UNCHANGED <<celebration_items, owned_items, missing_items, ci, item,
                   checked, is_owned, exc, intAt, textVars, groupVars>>

\* lines 394-396: except Exception
HandleException ==
    /\ pc = "except"
    /\ missing_items' = DictAppend(missing_items, category, item)
    /\ handled' = TRUE
    /\ LocalsCleared
    /\ ii' = ii + 1
    /\ pc' = "item"
    /\ UNCHANGED <<celebration_items, owned_items, ci, item, checked, is_owned,
                   exc, intAt, textVars, groupVars>>

\* Ctrl+C: KeyboardInterrupt is raised at whatever line is executing.  Inside
\* the try block (lines 379-389) line 391 catches it and the function
\* returns; anywhere else in the function, the except clause of lines 394-396
\* included, nothing catches it.
InTry == pc \in {"search", "match", "return", "classify", "sleep"}

Interrupt ==
    /\ pc \in {"category", "item", "search", "match", "return", "classify",
               "sleep", "except"}
    /\ intAt' = pc
    /\ pc' = IF InTry THEN "stopped" ELSE "raised"
    /\ LocalsCleared
    /\ UNCHANGED <<celebration_items, owned_items, missing_items, ci, ii, item,
                   checked, is_owned, exc, handled, textVars, groupVars>>

Step(responses) ==
    \/ BeginCategory
    \/ Finish
    \/ EndCategory
    \/ BeginItem
    \/ Search(responses)
    \/ Match
    \/ ReturnFalse
    \/ Return
    \/ Classify
    \/ Sleep
    \/ HandleException

\* The run over every catalog of at most MaxItems items, the provider
\* answering each query with at most one node
Init == InitRun(Catalogs(ItemNames, MaxItems))

Next == Step(ResponsesUpTo(1)) \/ Interrupt

Spec == Init /\ [][Next]_vars

\* One item resolved, the provider answering each query with at most
\* MaxResults nodes
InitResolve ==
    /\ InitRun(Catalogs(ItemNames, 1))
    /\ CountAll(celebration_items) = 1

NextResolve == Step(ResponsesUpTo(MaxResults)) \/ Interrupt

SpecResolve == InitResolve /\ [][NextResolve]_vars

(***************************************************************************)
(* Properties of get_search_terms and normalize_name (SpecText)            *)
(***************************************************************************)
IsAlnumChar(c) == IsWordChar(c) /\ c # "_"

\* outside alphanumeric / whitespace / dash, as the specification words it
IsOutsideAlnum(c) == ~(IsAlnumChar(c) \/ IsSpaceChar(c) \/ c = "-")

\* outside the regular expression's class: alphanumeric or underscore (\w),
\* whitespace, dash
IsOutsideWord(c) == ~(IsWordChar(c) \/ IsSpaceChar(c) \/ c = "-")

\* the whitespace-separated words of s, as the spans <<first, last>> of the
\* maximal runs of non-whitespace
WordSpans(s) ==
    {sp \in (1..Len(s)) \X (1..Len(s)) :
        /\ sp[1] <= sp[2]
        /\ \A k \in sp[1]..sp[2] : ~IsSpaceChar(s[k])
        /\ (sp[1] = 1 \/ IsSpaceChar(s[sp[1] - 1]))
        /\ (sp[2] = Len(s) \/ IsSpaceChar(s[sp[2] + 1]))}

LastSpan(S) == CHOOSE sp \in S : \A o \in S : o[1] <= sp[1]

LastWordOf(s) ==
    IF WordSpans(s) = {} THEN <<>>
    ELSE LET sp == LastSpan(WordSpans(s)) IN SubSeq(s, sp[1], sp[2])

LastTwoWordsOf(s) ==
    IF Cardinality(WordSpans(s)) < 2 THEN <<>>
    ELSE LET l == LastSpan(WordSpans(s))
             p == LastSpan(WordSpans(s) \ {l})
         IN  SubSeq(s, p[1], p[2]) \o <<" ">> \o SubSeq(s, l[1], l[2])

\* a "special" character: outside alphanumeric/whitespace/dash as the
\* specification words it (asWorded), or outside the class [\w\s-]
IsSpecialChar(c, asWorded) ==
    IF asWorded THEN IsOutsideAlnum(c) ELSE IsOutsideWord(c)

StrippedOf(s, asWorded) ==
    SelectSeq(s, LAMBDA c : ~IsSpecialChar(c, asWorded))

\* The shape of generateTerms(s) = t; needsWord says whether the last-word
\* term also requires the stripped variant to have a word.
TermsShape(s, t, asWorded, needsWord) ==
    LET stripped == StrippedOf(s, asWorded)
        special == \E i \in 1..Len(s) : IsSpecialChar(s[i], asWorded)
        nwords == Cardinality(WordSpans(stripped))
    IN  /\ Len(t) \in 1..4
        /\ t[1] = s
        /\ (stripped # s) <=> Len(t) >= 2
        /\ Len(t) >= 2 => t[2] = stripped
        /\ (special /\ (needsWord => nwords >= 1)) <=> Len(t) >= 3
        /\ Len(t) >= 3 => t[3] = LastWordOf(stripped)
        /\ (special /\ nwords >= 2) <=> Len(t) = 4
        /\ Len(t) = 4 => t[4] = LastTwoWordsOf(stripped)

C10_NormalizationIdempotent ==
    tpc \in {"renormalized", "done"} => renormalized = normalized

(***************************************************************************)
(* Properties of group_items_by_base_name (SpecGroup)                      *)
(***************************************************************************)
SepPositions(x) == {p \in 1..(Len(x) - 2) : SubSeq(x, p, p + 2) = Sep}

\* the text before the last occurrence of " - ", or the name itself
TextBeforeLastSep(x) ==
    IF SepPositions(x) = {} THEN x
    ELSE LET p == CHOOSE q \in SepPositions(x) : \A o \in SepPositions(x) : o <= q
         IN  SubSeq(x, 1, p - 1)

FirstSeen(seq, k) ==
    CHOOSE i \in 1..Len(seq) :
        /\ TextBeforeLastSep(seq[i]) = k
        /\ \A j \in 1..(i - 1) : TextBeforeLastSep(seq[j]) # k

RS_H == <<"R", "S", " ", "-", " ", "H">>
RS_U == <<"R", "S", " ", "-", " ", "U">>
LW == <<"L", "W">>

\* C9: after the names items[1..n] have been grouped, each is in the group
\* keyed by the text before its last " - " (or by itself); the groups
\* partition the input, keys are in first-seen order and members keep input
\* order; the REDHAMMER STANDARD / LONE WOLF example gives groups of 2 and 1.
C9_GroupingCorrect ==
    LET done == SubSeq(items, 1, gi - 1) IN
    gpc \in {"loop", "done"} =>
        /\ \A i, j \in 1..Len(grouped) :
              i # j => grouped[i].key # grouped[j].key
        /\ \A i \in 1..Len(done) :
              \E g \in 1..Len(grouped) : grouped[g].key = TextBeforeLastSep(done[i])
        /\ \A g \in 1..Len(grouped) :
              /\ grouped[g].members # <<>>
              /\ grouped[g].members =
                   SelectSeq(done, LAMBDA x : TextBeforeLastSep(x) = grouped[g].key)
        /\ \A g, h \in 1..Len(grouped) :
              g < h => FirstSeen(done, grouped[g].key) < FirstSeen(done, grouped[h].key)
        /\ (gpc = "done" /\ items = <<RS_H, RS_U, LW>>) =>
              grouped = << [key |-> <<"R", "S">>, members |-> <<RS_H, RS_U>>],
                           [key |-> LW, members |-> <<LW>>] >>

\* C9 witness: the example list grouped, or a name with two separators
\* grouped under the text before the last one
C9_Witness ==
    /\ gpc = "done"
    /\ \/ items = <<RS_H, RS_U, LW>>
       \/ /\ Len(items) = 2
          /\ Cardinality(SepPositions(items[1])) = 2
          /\ items[2] = <<"R", "S">>
    /\ Len(grouped) = 2

(***************************************************************************)
(* Properties of check_ownership (SpecResolve)                             *)
(***************************************************************************)
Target == normalize_name(item)

\* the candidates whose normalized name equals the target
ExactIdx(res) == {i \in 1..Len(res) : normalize_name(res[i].name) = Target}

FirstExact(res) == CHOOSE i \in ExactIdx(res) : \A j \in ExactIdx(res) : i <= j

WordSet(s) == {SubSeq(s, sp[1], sp[2]) : sp \in WordSpans(s)}

IsSubstring(t, s) ==
    \E off \in 0..(Len(s) - Len(t)) : \A k \in 1..Len(t) : s[off + k] = t[k]

\* the three conditions of the partial pass, as specified
Qualifies(c) ==
    /\ Target # <<>>
    /\ IsSubstring(Target, normalize_name(c.name))
    /\ c.is_owned
    /\ WordSet(Target) \subseteq WordSet(normalize_name(c.name))

QualifiesSome(res) == \E i \in 1..Len(res) : Qualifies(res[i])

\* the Interrupt step
Cancelled == intAt' # intAt

\* C1 as stated: when the list a term returned holds a candidate whose
\* normalized name equals the target, the verdict is that candidate's
\* ownership flag, for whichever candidate that is, and resolution stops.
C1_ExactAsStated ==
    [][(pc = "match" /\ ExactIdx(results) # {} /\ ~Cancelled) =>
          /\ pc' = "return"
          /\ queried' = queried
          /\ \A i \in ExactIdx(results) : ret' = results[i].is_owned]_vars

\* C1 amended: the verdict is the ownership flag of the FIRST candidate in
\* list order whose normalized name equals the target; resolution stops
\* there without looking at partial matches and no later term is queried.
C1_ExactPrecedence ==
    [][/\ (pc = "match" /\ ExactIdx(results) # {} /\ ~Cancelled) =>
             /\ pc' = "return"
             /\ queried' = queried
             /\ ret' = results[FirstExact(results)].is_owned
       /\ (pc = "return" /\ ~Cancelled) => pc' = "classify"]_vars

\* C1 witness: an owned word-subset partial match listed before the unowned
\* exact match: the verdict is Missing
C1_Witness ==
    /\ pc = "return"
    /\ Len(results) = 2
    /\ ExactIdx(results) = {2}
    /\ ~results[2].is_owned
    /\ results[1].is_owned
    /\ Qualifies(results[1])
    /\ ret = FALSE

\* C2: when a term's candidates hold no exact match, the verdict is Owned
\* exactly when some candidate is owned, has the NON-EMPTY target as a
\* substring of its normalized name and holds every word of the target as a
\* whole word; a name that normalizes to the empty string is never made
\* Owned by the partial pass.
C2_PartialRule ==
    (pc = "return" /\ results # <<>> /\ ExactIdx(results) = {}) =>
        (ret = TRUE <=> QualifiesSome(results))

\* C3: the terms are queried one at a time in list order; a term whose
\* candidates hold neither an exact match nor a qualifying partial match is
\* skipped; the first decisive term produces the verdict and no lookup
\* follows it; the verdict is Missing when every term is exhausted.
C3_TermSequencing ==
    [][~Cancelled =>
          /\ (pc = "search" /\ pc' # "return") =>
                /\ Len(queried) < Len(search_terms)
                /\ queried' = Append(queried, search_terms[Len(queried) + 1])
          /\ (pc = "search" /\ pc' = "return") =>
                /\ queried = search_terms
                /\ ret' = FALSE
          /\ pc = "match" =>
                /\ queried' = queried
                /\ IF ExactIdx(results) # {}
                   THEN /\ pc' = "return"
                        /\ ret' \in {results[i].is_owned : i \in ExactIdx(results)}
                   ELSE IF QualifiesSome(results)
                   THEN pc' = "return" /\ ret' = TRUE
                   ELSE pc' = "search"
          /\ pc = "return" => pc' = "classify"]_vars

\* the provider answered with something other than a list of well-formed
\* nodes
LookupFailed(r) ==
    \/ r.kind \in {"None", "scalar", "errors"}
    \/ /\ r.kind = "nodes"
       /\ \E i \in 1..Len(r.nodes) : r.nodes[i].viewer \in {"nokeys", "metanull"}

\* C4: a lookup that fails for a term, whatever the failure, is treated as
\* zero candidates: no exception leaves check_ownership and the resolution
\* goes on with an empty result list.
C4_LookupFailureIsNoCandidates ==
    LookupFailed(resp) => (pc = "match" /\ results = <<>> /\ exc = "none")

C6_CancellationSafety ==
    intAt # "none" =>
        /\ pc = "stopped"
        /\ total_owned + total_missing = checked

\* the subsequence of pre at the indices i with f[i] = b
RECURSIVE Pick(_, _, _, _)
Pick(pre, f, b, i) ==
    IF i > Len(pre) THEN <<>>
    ELSE (IF f[i] = b THEN <<pre[i]>> ELSE <<>>) \o Pick(pre, f, b, i + 1)

\* o and m split pre: every occurrence in exactly one of them, in order
Splits(pre, o, m) ==
    \E f \in [1..Len(pre) -> BOOLEAN] :
        o = Pick(pre, f, TRUE, 1) /\ m = Pick(pre, f, FALSE, 1)

\* C7: in every state, in every category, the processed occurrences (the
\* first n of the catalog) appear exactly once each, in exactly one of the
\* owned and missing sequences, in catalog order; the totals never exceed
\* the catalog's and equal it after an uncancelled run, also when a fault is
\* raised after the verdict was appended.
C7_ClassificationInvariant ==
    /\ \A k \in 1..Len(owned_items) :
          LET o == owned_items[k].members
              m == DictGet(missing_items, owned_items[k].key)
              all == DictGet(celebration_items, owned_items[k].key)
          IN  /\ Len(o) + Len(m) <= Len(all)
              /\ Splits(SubSeq(all, 1, Len(o) + Len(m)), o, m)
    /\ total_owned + total_missing <= total_celebration
    /\ pc = "done" => total_owned + total_missing = total_celebration

=============================================================================
